---- MODULE Spec2Model ----
(***************************************************************************)
(* Model of the city population enrichment pipeline of                    *)
(* src/src/migration/populate_city_population.py: name normalisation,     *)
(* the GeoNames grid matcher, the rate-limited retrying Wikidata client,  *)
(* the transactional batch update and main().                             *)
(*                                                                         *)
(* Strings are sequences of one-character tokens.  Coordinates are        *)
(* integers in units of 0.02 degree close to (0N, 0E); distances are in   *)
(* metres.                                                                 *)
(***************************************************************************)
EXTENDS Integers, Sequences, FiniteSets, TLC

\* ------------------------------------------------------------------------
\* Bounds of the model
\* ------------------------------------------------------------------------
\* longest raw name fed to normalize_name in SpecNorm
MaxNameLen == 3
\* most reference rows in a dataset of SpecMatch
MaxEntries == 2
\* rows of public.cities in a run of main()
NumCities == 2
\* matches in one call of update_populations
MaxBatch == 3
\* bindings in one response of the remote endpoint
MaxBindings == 2
\* most failed requests in a run, over all targets
MaxRemoteFailures == 3
\* most records on which match_city raises in a run
MaxBulkErrors == 1

\* ------------------------------------------------------------------------
\* Generic helpers
\* ------------------------------------------------------------------------
Max(a, b) == IF a >= b THEN a ELSE b
Min(a, b) == IF a <= b THEN a ELSE b
Abs(a) == IF a < 0 THEN 0 - a ELSE a

\* Optional[int]: None is the empty sequence, a value v is <<v>>
None == <<>>
Some(v) == <<v>>

RECURSIVE SeqsUpTo(_, _)
SeqsUpTo(S, n) ==
  IF n = 0 THEN {<<>>}
  ELSE LET shorter == SeqsUpTo(S, n - 1)
       IN shorter \cup {Append(s, e) : s \in {t \in shorter : Len(t) = n - 1}, e \in S}

RECURSIVE Concat(_)
Concat(ss) == IF ss = <<>> THEN <<>> ELSE Head(ss) \o Concat(Tail(ss))

\* ------------------------------------------------------------------------
\* Characters.  Non-ASCII characters are written as named tokens:
\*   "E^" = U+00C9 (E acute), "e^" = U+00E9 (e acute),
\*   "BEI" = U+5317, "JING" = U+4EAC (CJK, no case), "NBSP" is not used.
\* ------------------------------------------------------------------------
AsciiUpper == {"B", "J", "M", "P"}
AsciiLower == {"a", "b", "e", "g", "i", "j", "l", "m", "n", "p", "r", "s", "y"}
Whitespace == {" "}

\* str.lower() on one character
ToLowerTable ==
  ("B" :> "b") @@ ("J" :> "j") @@ ("M" :> "m") @@ ("P" :> "p") @@ ("E^" :> "e^")
CharLower(ch) == IF ch \in DOMAIN ToLowerTable THEN ToLowerTable[ch] ELSE ch

\* unidecode() on one character: ASCII is kept, e acute loses its accent,
\* a CJK ideograph becomes its capitalised pinyin followed by a space
UnidecodeTable ==
  ("e^" :> <<"e">>) @@ ("E^" :> <<"E">>) @@
  ("BEI" :> <<"B", "e", "i", " ">>) @@ ("JING" :> <<"J", "i", "n", "g", " ">>)
CharUnidecode(ch) == IF ch \in DOMAIN UnidecodeTable THEN UnidecodeTable[ch] ELSE <<ch>>

\* str.isalnum() on one ASCII character
IsAlnum(ch) == ch \in AsciiUpper \cup AsciiLower

\* ------------------------------------------------------------------------
\* normalize_name
\* ------------------------------------------------------------------------
RECURSIVE LStrip(_)
LStrip(s) == IF s # <<>> /\ Head(s) \in Whitespace THEN LStrip(Tail(s)) ELSE s

RECURSIVE RStrip(_)
RStrip(s) ==
  IF s # <<>> /\ s[Len(s)] \in Whitespace THEN RStrip(SubSeq(s, 1, Len(s) - 1)) ELSE s

\* str.strip()
Strip(s) == RStrip(LStrip(s))

\* str.lower()
Lower(s) == [i \in 1..Len(s) |-> CharLower(s[i])]

\* unidecode(s)
Unidecode(s) == Concat([i \in 1..Len(s) |-> CharUnidecode(s[i])])

\* the loop of normalize_name: alphanumerics are kept, a run of anything
\* else becomes one space
RECURSIVE KeepAlnum(_, _)
KeepAlnum(s, prev_space) ==
  IF s = <<>> THEN <<>>
  ELSE IF IsAlnum(Head(s)) THEN <<Head(s)>> \o KeepAlnum(Tail(s), FALSE)
  ELSE IF ~prev_space THEN <<" ">> \o KeepAlnum(Tail(s), TRUE)
  ELSE KeepAlnum(Tail(s), TRUE)

\* " ".join(s.split())
RECURSIVE JoinSplit(_, _)
JoinSplit(s, pending_space) ==
  IF s = <<>> THEN <<>>
  ELSE IF Head(s) \in Whitespace THEN JoinSplit(Tail(s), TRUE)
  ELSE (IF pending_space THEN <<" ">> ELSE <<>>) \o <<Head(s)>> \o JoinSplit(Tail(s), FALSE)

SplitJoin(s) == JoinSplit(LStrip(s), FALSE)

normalize_name(name) ==
  IF name = <<>> THEN <<>>
  ELSE SplitJoin(KeepAlnum(Unidecode(Lower(Strip(name))), FALSE))

\* ------------------------------------------------------------------------
\* Program constants
\* ------------------------------------------------------------------------
\* a radius that takes in the reference point at 31.1 km
RadiusTooWide == 30 + 5
MAX_RADIUS_KM == 30
\* a bulk threshold that the names one letter apart do not reach
FuzzyThresholdTooHigh == 94 + 2
FUZZY_MATCH_THRESHOLD == 94
\* a remote threshold set ten points too low
RemoteThresholdTooLow == 92 - 10
WIKIDATA_MATCH_THRESHOLD == 92
\* float('inf'), in metres
Inf == 1000000000
\* (EARTH_RADIUS_KM * 1000 * radians(0.02)) ^ 2: the square of the metres in
\* one coordinate unit
UnitSqM == 4945725

\* ------------------------------------------------------------------------
\* fuzz.ratio: 100 * 2 * LCS(a, b) / (len(a) + len(b)), here in hundredths
\* (names of at most 10 characters have distinct scores at least 0.5 apart,
\* so the hundredths keep their order and their equality)
\* ------------------------------------------------------------------------
\* one row of the longest-common-subsequence table: row[j + 1] is the LCS
\* length of the prefix of a ending with ch and the first j characters of b
RECURSIVE LcsRow(_, _, _, _)
LcsRow(prev, ch, b, row) ==
  IF Len(row) = Len(b) + 1 THEN row
  ELSE LET j == Len(row)
       IN LcsRow(prev, ch, b,
                 Append(row, IF ch = b[j] THEN prev[j] + 1 ELSE Max(prev[j + 1], row[j])))

RECURSIVE LcsRows(_, _, _, _)
LcsRows(a, b, i, prev) ==
  IF i > Len(a) THEN prev[Len(b) + 1]
  ELSE LcsRows(a, b, i + 1, LcsRow(prev, a[i], b, <<0>>))

LcsLen(a, b) == LcsRows(a, b, 1, [j \in 1..(Len(b) + 1) |-> 0])

fuzz_ratio(a, b) ==
  IF Len(a) + Len(b) = 0 THEN 10000
  ELSE (20000 * LcsLen(a, b)) \div (Len(a) + Len(b))

\* ------------------------------------------------------------------------
\* haversine_distance, in metres.  Within 0.6 degree of (0N, 0E) the great
\* circle distance of the source differs from unit * sqrt(dlat^2 + dlon^2)
\* by less than one metre.
\* ------------------------------------------------------------------------
RECURSIVE SqrtSearch(_, _, _)
SqrtSearch(x, lo, hi) ==
  IF lo >= hi THEN lo
  ELSE LET mid == (lo + hi + 1) \div 2
       IN IF mid * mid <= x THEN SqrtSearch(x, mid, hi) ELSE SqrtSearch(x, lo, mid - 1)

IntSqrt(x) == SqrtSearch(x, 0, 46340)

haversine_distance(lat1, lon1, lat2, lon2) ==
  IntSqrt(UnitSqM * ((lat2 - lat1) * (lat2 - lat1) + (lon2 - lon1) * (lon2 - lon1)))

\* the radius test dropped: every distance passes
WithinRadiusUnchecked(distance) == TRUE

\* distance <= MAX_RADIUS_KM (and not distance > MAX_RADIUS_KM)
WithinRadius(distance) == distance <= MAX_RADIUS_KM * 1000

\* ------------------------------------------------------------------------
\* GeoNamesProvider
\* ------------------------------------------------------------------------
\* int(round(x * 10 ** index_precision)) for x = k * 0.02 degree: k / 5
\* rounded to the nearest integer (k / 5 is never half-way)
GridCoord(k) == (k + 2) \div 5

\* _parse_line: a row of the dataset file becomes a GeoNamesRecord of its
\* country, unless it is no populated place or has no positive population
\* int(population_str), 0 when it raises ValueError
ParsePopulation(row) == IF row.pop_kind = "int" THEN row.population ELSE 0

\* _parse_line that keeps the rows of every population
ParseLineKeepsAll(data_by_country, row) ==
  IF row.parts < 15 THEN data_by_country
  ELSE IF row.feature_class # "P" THEN data_by_country
  ELSE LET record == [name_normalized |-> normalize_name(row.name),
                      ascii_normalized |-> normalize_name(row.asciiname),
                      lat |-> row.lat, lon |-> row.lon,
                      population |-> ParsePopulation(row)]
           old == IF row.country_code \in DOMAIN data_by_country
                  THEN data_by_country[row.country_code] ELSE <<>>
       IN [c \in DOMAIN data_by_country \cup {row.country_code} |->
             IF c = row.country_code THEN Append(old, record) ELSE data_by_country[c]]

parse_line(data_by_country, row) ==
  IF row.parts < 15 THEN data_by_country
  ELSE IF row.feature_class # "P" THEN data_by_country
  ELSE IF ParsePopulation(row) <= 0 THEN data_by_country
  ELSE LET record == [name_normalized |-> normalize_name(row.name),
                      ascii_normalized |-> normalize_name(row.asciiname),
                      lat |-> row.lat, lon |-> row.lon,
                      population |-> ParsePopulation(row)]
           old == IF row.country_code \in DOMAIN data_by_country
                  THEN data_by_country[row.country_code] ELSE <<>>
       IN [c \in DOMAIN data_by_country \cup {row.country_code} |->
             IF c = row.country_code THEN Append(old, record) ELSE data_by_country[c]]

\* _parse_zip: every line of the file, in order
RECURSIVE parse_zip(_, _)
parse_zip(data_by_country, rows) ==
  IF rows = <<>> THEN data_by_country
  ELSE parse_zip(parse_line(data_by_country, Head(rows)), Tail(rows))

EmptyData == [c \in {} |-> <<>>]

\* _build_spatial_index: spatial_index[country][key] is the list of the
\* country's records whose rounded coordinates are key, in file order
GridKey(record) == <<GridCoord(record.lat), GridCoord(record.lon)>>

SelectKey(records, key) ==
  LET Test(r) == GridKey(r) = key IN SelectSeq(records, Test)

\* _get_nearby_grid_keys
get_nearby_grid_keys(lat, lon) ==
  LET center_lat == GridCoord(lat)
      center_lon == GridCoord(lon)
      deltas == <<-1, 0, 1>>
  IN [n \in 1..9 |-> <<center_lat + deltas[((n - 1) \div 3) + 1],
                       center_lon + deltas[((n - 1) % 3) + 1]>>]

\* the candidates of match_city: the records of the 3x3 cells, or the whole
\* country when the cells hold nothing
NearbyRecords(records, city) ==
  LET keys == get_nearby_grid_keys(city.lat, city.lon)
  IN Concat([n \in 1..9 |-> SelectKey(records, keys[n])])

Candidates(records, city) ==
  IF NearbyRecords(records, city) = <<>> THEN records ELSE NearbyRecords(records, city)

NameEquals(record, normalized_query) ==
  \/ record.name_normalized = normalized_query
  \/ record.ascii_normalized = normalized_query

CityDistance(city, record) == haversine_distance(city.lat, city.lon, record.lat, record.lon)

\* Phase 1 of match_city: the nearest candidate of equal name within the radius
RECURSIVE ExactPhase(_, _, _, _, _)
ExactPhase(candidates, city, normalized_query, best_exact_pop, best_exact_dist) ==
  IF candidates = <<>> THEN best_exact_pop
  ELSE LET record == Head(candidates)
           distance == CityDistance(city, record)
       IN IF /\ NameEquals(record, normalized_query)
             /\ WithinRadius(distance)
             /\ distance < best_exact_dist
          THEN ExactPhase(Tail(candidates), city, normalized_query,
                          Some(record.population), distance)
          ELSE ExactPhase(Tail(candidates), city, normalized_query,
                          best_exact_pop, best_exact_dist)

FuzzyScore(record, normalized_query) ==
  Max(fuzz_ratio(normalized_query, record.name_normalized),
      fuzz_ratio(normalized_query, record.ascii_normalized))

\* Phase 2 of match_city: the best scoring candidate within the radius
RECURSIVE FuzzyPhase(_, _, _, _, _, _)
FuzzyPhase(candidates, city, normalized_query, best_fuzzy_pop, best_fuzzy_score, best_fuzzy_dist) ==
  IF candidates = <<>> THEN best_fuzzy_pop
  ELSE LET record == Head(candidates)
           score == FuzzyScore(record, normalized_query)
           distance == CityDistance(city, record)
       IN IF score < FUZZY_MATCH_THRESHOLD * 100
          THEN FuzzyPhase(Tail(candidates), city, normalized_query,
                          best_fuzzy_pop, best_fuzzy_score, best_fuzzy_dist)
          ELSE IF ~WithinRadius(distance)
          THEN FuzzyPhase(Tail(candidates), city, normalized_query,
                          best_fuzzy_pop, best_fuzzy_score, best_fuzzy_dist)
          ELSE IF \/ score > best_fuzzy_score
                  \/ (score = best_fuzzy_score /\ distance < best_fuzzy_dist)
          THEN FuzzyPhase(Tail(candidates), city, normalized_query,
                          Some(record.population), score, distance)
          ELSE FuzzyPhase(Tail(candidates), city, normalized_query,
                          best_fuzzy_pop, best_fuzzy_score, best_fuzzy_dist)

match_city(data_by_country, city) ==
  IF city.country_code \notin DOMAIN data_by_country THEN None
  ELSE IF data_by_country[city.country_code] = <<>> THEN None
  ELSE LET records == data_by_country[city.country_code]
           candidates == Candidates(records, city)
           normalized_query == normalize_name(city.name)
           best_exact_pop == ExactPhase(candidates, city, normalized_query, None, Inf)
       IN IF best_exact_pop # None THEN best_exact_pop
          ELSE FuzzyPhase(candidates, city, normalized_query, None, 0, Inf)

\* ------------------------------------------------------------------------
\* WikidataProvider.  Time is counted in ticks of half a second and
\* WIKIDATA_MAX_QPS in tenths of a query per second.
\* ------------------------------------------------------------------------
TicksPerSecond == 2
\* one attempt more than stop_after_attempt(3) allows
StopAfterOneMore == 3 + 1

\* stop_after_attempt(3)
STOP_AFTER_ATTEMPT == 3
\* wait_exponential(min=1, max=10), in seconds
WAIT_MIN == 1
WAIT_MAX == 10

RECURSIVE Pow2(_)
Pow2(n) == IF n <= 0 THEN 1 ELSE 2 * Pow2(n - 1)

\* self.delay = 1.0 / max(max_qps, 0.1), in ticks
Delay(max_qps_tenths) == (10 * TicksPerSecond) \div Max(max_qps_tenths, 1)

\* tenacity's wait_exponential after the attempt_number-th failed attempt:
\* max(min, min(multiplier * 2 ** (attempt_number - 1), max)), in ticks
wait_exponential(attempt_number) ==
  TicksPerSecond * Max(WAIT_MIN, Min(Pow2(attempt_number - 1), WAIT_MAX))

\* _rate_limit stamps the time and never sleeps
NoSleep(now, previous, delay) == 0

\* the time _rate_limit sleeps: self.delay - elapsed when elapsed < self.delay
RateLimitSleep(now, last_request, delay) ==
  IF now - last_request < delay THEN delay - (now - last_request) ELSE 0

\* tenacity's default retry predicate, retry_if_exception_type(Exception):
\* every failure of _query is retried, whatever its kind
ShouldRetry(failure) == TRUE

\* the failures of one request: httpx timeout; raise_for_status on a 5xx, on
\* 429 Too Many Requests or on another 4xx; response.json() on a malformed body
FailureKinds == {"timeout", "5xx", "429", "malformed", "4xx"}
TransientKinds == {"timeout", "5xx", "429", "malformed"}

\* _parse_result: the loop over the bindings.  A binding is
\* [label, pop, coord]; pop is [kind |-> "missing" | "bad" | "num", value],
\* coord is [kind |-> "point" | "other", lat, lon]
RECURSIVE ParseLoop(_, _, _, _, _, _)
ParseLoop(bindings, target, normalized_query, best_pop, best_score, best_dist) ==
  IF bindings = <<>>
  THEN IF best_pop # None /\ best_score >= WIKIDATA_MATCH_THRESHOLD * 100
       THEN best_pop ELSE None
  ELSE LET binding == Head(bindings)
           rest == Tail(bindings)
           score == fuzz_ratio(normalized_query, normalize_name(binding.label))
           distance == haversine_distance(target.lat, target.lon,
                                          binding.coord.lat, binding.coord.lon)
           Skip == ParseLoop(rest, target, normalized_query, best_pop, best_score, best_dist)
       IN IF binding.pop.kind # "num" THEN Skip
          ELSE IF binding.pop.value <= 0 THEN Skip
          ELSE IF binding.coord.kind # "point" THEN Skip
          ELSE IF distance > MAX_RADIUS_KM * 1000 THEN Skip
          ELSE IF score > best_score \/ (score = best_score /\ distance < best_dist)
          THEN ParseLoop(rest, target, normalized_query,
                         Some(binding.pop.value), score, distance)
          ELSE Skip

parse_result(target, bindings) ==
  ParseLoop(bindings, target, normalize_name(target.name), None, 0, Inf)

\* ------------------------------------------------------------------------
\* DatabaseManager: public.cities is a function from id to population, 0
\* standing for NULL
\* ------------------------------------------------------------------------
\* SET population = c.population + t.population: the staged value is added
UpdateJoinAdds(rows, tmp) ==
  [id \in DOMAIN rows |->
     IF \E k \in 1..Len(tmp) : tmp[k][1] = id
     THEN rows[id] + tmp[CHOOSE k \in 1..Len(tmp) : tmp[k][1] = id][2]
     ELSE rows[id]]

\* UPDATE public.cities c SET population = t.population FROM tmp_city_pop t
\* WHERE c.id = t.id
UpdateJoin(rows, tmp) ==
  [id \in DOMAIN rows |->
     IF \E k \in 1..Len(tmp) : tmp[k][1] = id
     THEN tmp[CHOOSE k \in 1..Len(tmp) : tmp[k][1] = id][2]
     ELSE rows[id]]

\* the number of rows staged, not of rows updated
RowCountOfBatch(rows, tmp) == Len(tmp)

\* cursor.rowcount of that UPDATE
RowCount(rows, tmp) == Cardinality({id \in DOMAIN rows : \E k \in 1..Len(tmp) : tmp[k][1] = id})

\* values = [(match.city_id, match.population) for match in matches]
Values(matches) == [k \in 1..Len(matches) |-> <<matches[k].city_id, matches[k].population>>]

\* id UUID PRIMARY KEY: an INSERT of two rows of one id fails
PrimaryKeyOk(values) ==
  \A k, l \in 1..Len(values) : values[k][1] = values[l][1] => k = l

\* matches[0:BATCH_SIZE], whatever i is
SliceFromStart(matches, i, batch_size) == SubSeq(matches, 1, Min(batch_size, Len(matches)))

\* matches[i:i + BATCH_SIZE], i counted from 0
Slice(matches, i, batch_size) ==
  SubSeq(matches, i + 1, Min(i + batch_size, Len(matches)))

\* for i in range(0, len(matches), BATCH_SIZE): db.update_populations(batch),
\* every call committing: the rows of public.cities after the loop
RECURSIVE ApplyBatches(_, _, _, _)
ApplyBatches(rows, matches, i, batch_size) ==
  IF i >= Len(matches) THEN rows
  ELSE ApplyBatches(UpdateJoin(rows, Values(Slice(matches, i, batch_size))),
                    matches, i + batch_size, batch_size)

\* ------------------------------------------------------------------------
\* State
\* ------------------------------------------------------------------------
VARIABLES
  \* SpecNorm: a raw name, normalize_name of it, normalize_name of that
  raw_name, normalized, renormalized, norm_pc,
  \* SpecMatch: the rows of a dataset file, GeoNamesProvider.data_by_country
  \* loaded from them, a target city and what match_city returns for it
  \* (Spec: the file behind GEONAMES_DATASET and geonames.data_by_country)
  file_rows, data_by_country, city, population, match_pc,
  \* SpecParse: a target, the bindings of a response for it, and what
  \* _parse_result returns for them
  parse_city, parse_bindings, remote_population, parse_pc,
  \* Spec, the environment: BATCH_SIZE, ONLY_NULL, WIKIDATA_MAX_QPS
  config,
  \* Spec, DatabaseManager: the committed rows of public.cities, the rows as
  \* the open transaction sees them, its temporary table, the connection
  table, working, tmp_city_pop, conn,
  \* Spec, main(): position, the locals, the loop variable, the exit code
  pc, fatal, exit_code, cities, stats, geonames_matches, unmatched_cities,
  wikidata_matches, i,
  \* Spec, update_populations: position, the matches argument, the row count
  upd_pc, batch, updated,
  \* Spec, WikidataProvider: position, index of the target, attempt number of
  \* the retry loop, the time, self._last_request
  w_pc, w_i, attempt, clock, last_request,
  \* Spec, what has happened so far: the table at the start of the run and at
  \* the start of the current update_populations, the phases visited, the
  \* calls of update_populations begun, the matches committed, whether the
  \* summary was printed, the requests sent in all, the stamp of the request
  \* before the last, the requests in flight, for each target taken up so
  \* far the outcomes of its requests, the kind of the last failure of the
  \* current target, the ids of the targets queried
  init_table, table_at_begin, events, writes_begun, committed, summary_emitted,
  requests_sent, prev_request, in_flight, log, last_failure, queried

normVars == <<raw_name, normalized, renormalized, norm_pc>>
matchVars == <<file_rows, data_by_country, city, population, match_pc>>
dbVars == <<table, working, tmp_city_pop, conn>>
mainVars ==
  <<pc, fatal, exit_code, cities, stats, geonames_matches, unmatched_cities,
    wikidata_matches, i>>
updVars == <<upd_pc, batch, updated>>
wikiVars == <<w_pc, w_i, attempt, clock, last_request>>
histVars ==
  <<init_table, table_at_begin, events, writes_begun, committed, summary_emitted,
    requests_sent, prev_request, in_flight, log, last_failure, queried>>
runVars == <<config, dbVars, mainVars, updVars, wikiVars, histVars>>
parseVars == <<parse_city, parse_bindings, remote_population, parse_pc>>
vars == <<normVars, matchVars, parseVars, runVars>>

\* the variables of a part of the program that a specification leaves out
NormIdle ==
  /\ raw_name = <<>> /\ normalized = <<>> /\ renormalized = <<>> /\ norm_pc = "idle"
MatchIdle ==
  /\ file_rows = <<>> /\ data_by_country = EmptyData /\ city = <<>>
  /\ population = None /\ match_pc = "idle"
ParseIdle ==
  /\ parse_city = <<>> /\ parse_bindings = <<>> /\ remote_population = None
  /\ parse_pc = "idle"
NoStats ==
  [total_cities |-> 0, geonames_matches |-> 0, wikidata_matches |-> 0,
   no_match |-> 0, errors |-> 0]
NoTmp == [exists |-> FALSE, rows |-> <<>>]
RunIdle ==
  /\ config = <<>> /\ table = <<>> /\ working = <<>> /\ tmp_city_pop = NoTmp
  /\ conn = "none" /\ pc = "idle" /\ fatal = FALSE /\ exit_code = -1
  /\ cities = <<>> /\ stats = NoStats /\ geonames_matches = <<>>
  /\ unmatched_cities = <<>> /\ wikidata_matches = <<>> /\ i = 0
  /\ upd_pc = "idle" /\ batch = <<>> /\ updated = 0
  /\ w_pc = "idle" /\ w_i = 0 /\ attempt = 0 /\ clock = 0 /\ last_request = 0
  /\ init_table = <<>> /\ table_at_begin = <<>> /\ events = <<>>
  /\ writes_begun = 0 /\ committed = <<>> /\ summary_emitted = FALSE
  /\ requests_sent = 0 /\ prev_request = -1 /\ in_flight = 0 /\ log = <<>>
  /\ last_failure = "none" /\ queried = <<>>

\* ------------------------------------------------------------------------
\* SpecNorm: normalize_name applied once and then again to its own result
\* ------------------------------------------------------------------------
NormAlphabet == {"a", "B", " ", "-", "E^", "BEI"}

InitNorm ==
  /\ raw_name \in SeqsUpTo(NormAlphabet, MaxNameLen)
  /\ normalized = <<>>
  /\ renormalized = <<>>
  /\ norm_pc = "input"
  /\ MatchIdle
  /\ ParseIdle
  /\ RunIdle

NormalizeOnce ==
  /\ norm_pc = "input"
  /\ normalized' = normalize_name(raw_name)
  /\ norm_pc' = "once"
  /\ UNCHANGED <<raw_name, renormalized, matchVars, parseVars, runVars>>

NormalizeAgain ==
  /\ norm_pc = "once"
  /\ renormalized' = normalize_name(normalized)
  /\ norm_pc' = "twice"
  /\ UNCHANGED <<raw_name, normalized, matchVars, parseVars, runVars>>

NextNorm == NormalizeOnce \/ NormalizeAgain

SpecNorm == InitNorm /\ [][NextNorm]_vars

\* ------------------------------------------------------------------------
\* SpecMatch: a dataset is loaded and one target is matched against it
\* ------------------------------------------------------------------------
Marseille == <<"M", "a", "r", "s", "e", "i", "l", "l", "e">>
Marseilles == <<"M", "a", "r", "s", "e", "i", "l", "l", "e", "s">>
Beijing == <<"B", "e", "i", "j", "i", "n", "g">>

\* name, ASCII name and country of the reference places; the place written
\* in ideographs has an ASCII name that normalizes differently
RefPlaces ==
  { [name |-> Marseille, asciiname |-> Marseille, country_code |-> "FR"],
    [name |-> Marseilles, asciiname |-> Marseilles, country_code |-> "FR"],
    [name |-> <<"BEI", "JING">>, asciiname |-> Beijing, country_code |-> "CN"] }

\* latitudes: 0 and 9 units (20 km) lie within the radius of a target at 0,
\* 14 units (31.1 km) lies outside; 9 and 14 are outside the 3x3 cells of 0
RefLats == {0, 9, 14}
RefLons == {0, 6}

\* each reference place has a population of its own, so that a returned
\* population tells which row it came from
RowPopulation(place, lat, lon) == 1000 * (lat + 1) + 100 * (lon + 1) + Len(place.asciiname)

RefRows ==
  { [name |-> p.name, asciiname |-> p.asciiname, country_code |-> p.country_code,
     lat |-> lat, lon |-> lon, feature_class |-> "P",
     population |-> RowPopulation(p, lat, lon), pop_kind |-> "int", parts |-> 19] :
    p \in RefPlaces, lat \in RefLats, lon \in RefLons }

Targets ==
  { [id |-> 1, name |-> t[1], country_code |-> t[2], lat |-> lat, lon |-> 0] :
    t \in { <<Marseille, "FR">>, <<Marseilles, "FR">>, <<Beijing, "CN">>,
            <<Marseille, "ZA">> },
    lat \in {0, 3} }

InitMatch ==
  /\ file_rows \in SeqsUpTo(RefRows, MaxEntries)
  /\ city \in Targets
  /\ data_by_country = EmptyData
  /\ population = None
  /\ match_pc = "input"
  /\ NormIdle
  /\ ParseIdle
  /\ RunIdle

\* GeoNamesProvider.download_and_parse
LoadDataset ==
  /\ match_pc = "input"
  /\ data_by_country' = parse_zip(EmptyData, file_rows)
  /\ match_pc' = "loaded"
  /\ UNCHANGED <<file_rows, city, population, normVars, parseVars, runVars>>

\* GeoNamesProvider.match_city
MatchCity ==
  /\ match_pc = "loaded"
  /\ population' = match_city(data_by_country, city)
  /\ match_pc' = "matched"
  /\ UNCHANGED <<file_rows, data_by_country, city, normVars, parseVars, runVars>>

NextMatch == LoadDataset \/ MatchCity

SpecMatch == InitMatch /\ [][NextMatch]_vars

\* ------------------------------------------------------------------------
\* SpecLoad: a file with rows that _parse_line skips is loaded and one
\* target is matched against it
\* ------------------------------------------------------------------------
\* rows of the target's name at the target's place: of 19 fields or of 14;
\* of feature class P or A; with a population field that is a positive
\* number, zero, a negative number, empty or no number (pop_kind tells how
\* the field reads; population is the number when it reads as one)
LoadRows ==
  { [name |-> Marseille, asciiname |-> Marseille, country_code |-> "FR",
     lat |-> 0, lon |-> 0, feature_class |-> class,
     population |-> pop[1], pop_kind |-> pop[2], parts |-> parts] :
    class \in {"P", "A"},
    pop \in { <<1109, "int">>, <<0, "int">>, <<-5, "int">>, <<0, "empty">>,
              <<0, "text">> },
    parts \in {19, 14} }

LoadTargets ==
  { [id |-> 1, name |-> Marseille, country_code |-> "FR", lat |-> 0, lon |-> 0] }

InitLoad ==
  /\ file_rows \in SeqsUpTo(LoadRows, MaxEntries)
  /\ city \in LoadTargets
  /\ data_by_country = EmptyData
  /\ population = None
  /\ match_pc = "input"
  /\ NormIdle
  /\ ParseIdle
  /\ RunIdle

SpecLoad == InitLoad /\ [][NextMatch]_vars

\* ------------------------------------------------------------------------
\* SpecParse: _parse_result is applied to the bindings of one response
\* ------------------------------------------------------------------------
\* the labels of the entities of a response: the target's name (score 100),
\* one letter more (14/15, 93.33) and two letters more (14/16, 87.5)
Beijings == <<"B", "e", "i", "j", "i", "n", "g", "s">>
Beijingss == <<"B", "e", "i", "j", "i", "n", "g", "s", "s">>
ParseLabels == {Beijing, Beijings, Beijingss}

\* each well-formed binding has a population of its own
BindingPopulation(label, lat) == 100 * Len(label) + lat + 1

\* well-formed bindings at 0, 20 and 31.1 km of the target, and bindings
\* without a population, with a population that is no number or not
\* positive, or without a point
ParseBindings ==
  { [label |-> label,
     pop |-> [kind |-> "num", value |-> BindingPopulation(label, lat)],
     coord |-> [kind |-> "point", lat |-> lat, lon |-> 0]] :
    label \in ParseLabels, lat \in RefLats }
  \cup
  { [label |-> Beijing, pop |-> pop, coord |-> [kind |-> "point", lat |-> 0, lon |-> 0]] :
    pop \in { [kind |-> "missing", value |-> 0], [kind |-> "bad", value |-> 0],
              [kind |-> "num", value |-> 0] } }
  \cup
  { [label |-> Beijing, pop |-> [kind |-> "num", value |-> 1],
     coord |-> [kind |-> "other", lat |-> 0, lon |-> 0]] }

ParseTargets ==
  { [id |-> 1, name |-> Beijing, country_code |-> "CN", lat |-> 0, lon |-> 0] }

InitParse ==
  /\ parse_city \in ParseTargets
  /\ parse_bindings \in SeqsUpTo(ParseBindings, MaxBindings)
  /\ remote_population = None
  /\ parse_pc = "input"
  /\ NormIdle
  /\ MatchIdle
  /\ RunIdle

\* population = self._parse_result(city, bindings)
ParseResult ==
  /\ parse_pc = "input"
  /\ remote_population' = parse_result(parse_city, parse_bindings)
  /\ parse_pc' = "parsed"
  /\ UNCHANGED <<parse_city, parse_bindings, normVars, matchVars, runVars>>

NextParse == ParseResult

SpecParse == InitParse /\ [][NextParse]_vars

\* ------------------------------------------------------------------------
\* Spec: one run of main()
\* ------------------------------------------------------------------------
Ids == 1..NumCities

\* name, country and coordinates of the rows of public.cities
StoreRow(id) ==
  CASE id % 3 = 1 -> [name |-> Marseille, country_code |-> "FR", lat |-> 0, lon |-> 0]
    [] id % 3 = 2 -> [name |-> Beijing, country_code |-> "CN", lat |-> 0, lon |-> 0]
    [] OTHER -> [name |-> Marseilles, country_code |-> "FR", lat |-> 3, lon |-> 0]

\* the population column before the run, NULL (0) or a positive value: all
\* rows NULL, all but the first NULL, or no row NULL
InitialTables ==
  { [id \in Ids |-> 0], [id \in Ids |-> IF id = 1 THEN 5 ELSE 0], [id \in Ids |-> 5] }

\* the dataset files a run may download: empty, Marseille only, or Marseille
\* and Beijing
RefRow(place, lat, lon) ==
  [name |-> place.name, asciiname |-> place.asciiname,
   country_code |-> place.country_code, lat |-> lat, lon |-> lon,
   feature_class |-> "P", population |-> RowPopulation(place, lat, lon),
   pop_kind |-> "int", parts |-> 19]
MarseilleRow ==
  RefRow([name |-> Marseille, asciiname |-> Marseille, country_code |-> "FR"], 0, 0)
BeijingRow ==
  RefRow([name |-> <<"BEI", "JING">>, asciiname |-> Beijing, country_code |-> "CN"], 0, 0)
RunFiles == {<<>>, <<MarseilleRow>>, <<MarseilleRow, BeijingRow>>}

BatchSizes == {1, 2}
\* WIKIDATA_MAX_QPS in tenths: 2 per second (the default) and 0.5 per second
QpsChoices == {20, 5}
\* the time from a request to its response or its failure, in ticks
RespTicks == {1}
\* time.time() when the run starts, in ticks
StartClock == 100

\* the bindings a request for a target may return: none, or one entity of
\* the target's name at the target's place
WikidataPopulation(target) == 500 + target.id
Responses(target) ==
  { <<>>,
    << [label |-> target.name,
        pop |-> [kind |-> "num", value |-> WikidataPopulation(target)],
        coord |-> [kind |-> "point", lat |-> target.lat, lon |-> target.lon]] >> }

\* ORDER BY country_code, name: code points compared left to right
CodePoints ==
  <<" ", "-", "B", "C", "F", "J", "M", "N", "P", "R", "a", "b", "e", "g", "i", "j",
    "l", "m", "n", "p", "r", "s", "y">>
CodePoint(ch) == CHOOSE k \in 1..Len(CodePoints) : CodePoints[k] = ch

RECURSIVE StrLess(_, _)
StrLess(a, b) ==
  IF b = <<>> THEN FALSE
  ELSE IF a = <<>> THEN TRUE
  ELSE IF Head(a) = Head(b) THEN StrLess(Tail(a), Tail(b))
  ELSE CodePoint(Head(a)) < CodePoint(Head(b))

CountryChars(cc) ==
  CASE cc = "CN" -> <<"C", "N">> [] cc = "FR" -> <<"F", "R">> [] OTHER -> <<"Z", "A">>

\* row a comes before row b in the result of fetch_cities (rows equal in both
\* columns are kept in id order)
RowBefore(a, b) ==
  LET ra == StoreRow(a)
      rb == StoreRow(b)
  IN \/ StrLess(CountryChars(ra.country_code), CountryChars(rb.country_code))
     \/ /\ ra.country_code = rb.country_code
        /\ \/ StrLess(ra.name, rb.name)
           \/ (ra.name = rb.name /\ a < b)

RECURSIVE SortIds(_)
SortIds(S) ==
  IF S = {} THEN <<>>
  ELSE LET first == CHOOSE a \in S : \A b \in S \ {a} : RowBefore(a, b)
       IN <<first>> \o SortIds(S \ {first})

\* fetch_cities without its where clause on the population, whatever
\* ONLY_NULL is
FetchIgnoresToggle(rows, only_null) ==
  LET ids == SortIds(DOMAIN rows)
  IN [k \in 1..Len(ids) |->
        [id |-> ids[k], name |-> StoreRow(ids[k]).name,
         country_code |-> StoreRow(ids[k]).country_code,
         lat |-> StoreRow(ids[k]).lat, lon |-> StoreRow(ids[k]).lon]]

\* fetch_cities: the rows that have a location (all of them), only those
\* without a positive population when ONLY_NULL, as CityRecords in order
fetch_cities(rows, only_null) ==
  LET ids == SortIds({id \in DOMAIN rows : only_null => rows[id] <= 0})
  IN [k \in 1..Len(ids) |->
        [id |-> ids[k], name |-> StoreRow(ids[k]).name,
         country_code |-> StoreRow(ids[k]).country_code,
         lat |-> StoreRow(ids[k]).lat, lon |-> StoreRow(ids[k]).lon]]

MatchResult(city_id, pop, source) ==
  [city_id |-> city_id, population |-> pop, source |-> source]

\* the phase an operation belongs to is appended to the phases visited
Visit(phase) ==
  IF events # <<>> /\ events[Len(events)] = phase THEN events ELSE Append(events, phase)

\* main(): where the run goes after the matching loop, after the GeoNames
\* batches and after match_cities
SummaryOnlyAfterRemote(unmatched) == IF unmatched # <<>> THEN "remote" ELSE "finally"
AfterPersistBulk(unmatched) == IF unmatched # <<>> THEN "remote" ELSE "summary"
RemoteBeforeBulkWrites(matches, unmatched) ==
  IF unmatched # <<>> THEN "remote"
  ELSE IF matches # <<>> THEN "persist_bulk" ELSE "summary"
AfterBulkMatching(matches, unmatched) ==
  IF matches # <<>> THEN "persist_bulk" ELSE AfterPersistBulk(unmatched)
AfterRemote(matches) == IF matches # <<>> THEN "persist_remote" ELSE "summary"

Init ==
  /\ NormIdle
  /\ ParseIdle
  /\ file_rows \in RunFiles
  /\ data_by_country = EmptyData /\ city = <<>> /\ population = None /\ match_pc = "idle"
  /\ config \in [BATCH_SIZE : BatchSizes, ONLY_NULL : BOOLEAN, WIKIDATA_MAX_QPS : QpsChoices]
  /\ table \in InitialTables
  /\ working = table /\ tmp_city_pop = NoTmp /\ conn = "none"
  /\ pc = "connect" /\ fatal = FALSE /\ exit_code = -1
  /\ cities = <<>> /\ stats = NoStats /\ geonames_matches = <<>>
  /\ unmatched_cities = <<>> /\ wikidata_matches = <<>> /\ i = 0
  /\ upd_pc = "idle" /\ batch = <<>> /\ updated = 0
  /\ w_pc = "idle" /\ w_i = 0 /\ attempt = 0 /\ clock = StartClock /\ last_request = 0
  /\ init_table = table /\ table_at_begin = table /\ events = <<>>
  /\ writes_begun = 0 /\ committed = <<>> /\ summary_emitted = FALSE
  /\ requests_sent = 0 /\ prev_request = -1 /\ in_flight = 0 /\ log = <<>>
  /\ last_failure = "none" /\ queried = <<>>

\* db.connect()
Connect ==
  /\ pc = "connect"
  /\ conn' = "open"
  /\ pc' = "fetch"
  /\ UNCHANGED <<normVars, parseVars, matchVars, config, table, working, tmp_city_pop, fatal,
                 exit_code, cities, stats, geonames_matches, unmatched_cities,
                 wikidata_matches, i, updVars, wikiVars, histVars>>

\* db.connect() raises: main() has no handler around it, the process ends
ConnectFails ==
  /\ pc = "connect"
  /\ pc' = "done"
  /\ fatal' = TRUE
  /\ exit_code' = 1
  /\ UNCHANGED <<normVars, parseVars, matchVars, config, dbVars, cities, stats, geonames_matches,
                 unmatched_cities, wikidata_matches, i, updVars, wikiVars, histVars>>

\* cities = db.fetch_cities(); an empty result returns from main()
Fetch ==
  /\ pc = "fetch"
  /\ cities' = fetch_cities(table, config.ONLY_NULL)
  /\ stats' = [stats EXCEPT !.total_cities = Len(cities')]
  /\ pc' = IF cities' = <<>> THEN "finally" ELSE "acquire"
  /\ events' = Visit("Fetching")
  /\ UNCHANGED <<normVars, parseVars, matchVars, config, dbVars, fatal, exit_code,
                 geonames_matches, unmatched_cities, wikidata_matches, i, updVars,
                 wikiVars, init_table, table_at_begin, writes_begun, committed,
                 summary_emitted, requests_sent, prev_request, in_flight, log, last_failure, queried>>

\* an exception reaches the handler of main()
Raise(phase) ==
  /\ pc' = "except"
  /\ events' = Visit(phase)

FetchFails ==
  /\ pc = "fetch"
  /\ Raise("Fetching")
  /\ UNCHANGED <<normVars, parseVars, matchVars, config, dbVars, fatal, exit_code, cities, stats,
                 geonames_matches, unmatched_cities, wikidata_matches, i, updVars,
                 wikiVars, init_table, table_at_begin, writes_begun, committed,
                 summary_emitted, requests_sent, prev_request, in_flight, log, last_failure, queried>>

\* geonames.download_and_parse()
Acquire ==
  /\ pc = "acquire"
  /\ data_by_country' = parse_zip(EmptyData, file_rows)
  /\ match_pc' = "loaded"
  /\ pc' = "bulk"
  /\ i' = 0
  /\ events' = Visit("BulkMatching")
  /\ UNCHANGED <<normVars, parseVars, file_rows, city, population, config, dbVars,
                 fatal, exit_code, cities, stats, geonames_matches, unmatched_cities,
                 wikidata_matches, updVars, wikiVars, init_table, table_at_begin,
                 writes_begun, committed, summary_emitted, requests_sent, prev_request,
                 in_flight, log, last_failure, queried>>

\* download_and_parse raises, and the run goes on to match against nothing
AcquireFailsContinues ==
  /\ pc = "acquire"
  /\ match_pc' = "failed"
  /\ pc' = "bulk"
  /\ events' = Visit("BulkMatching")
  /\ UNCHANGED <<normVars, parseVars, file_rows, data_by_country, city, population, config,
                 dbVars, fatal, exit_code, cities, stats,
                 geonames_matches, unmatched_cities, wikidata_matches, i, updVars,
                 wikiVars, init_table, table_at_begin, writes_begun, committed,
                 summary_emitted, requests_sent, prev_request, in_flight, log, last_failure,
                 queried>>

\* download_and_parse raises: the download or the parsing of the zip failed
AcquireFails ==
  /\ pc = "acquire"
  /\ match_pc' = "failed"
  /\ Raise("BulkMatching")
  /\ UNCHANGED <<normVars, parseVars, file_rows, data_by_country, city, population, config,
                 dbVars, fatal, exit_code, cities, stats,
                 geonames_matches, unmatched_cities, wikidata_matches, i, updVars,
                 wikiVars, init_table, table_at_begin, writes_begun, committed,
                 summary_emitted, requests_sent, prev_request, in_flight, log, last_failure, queried>>

\* the end of one turn of the matching loop: the next city, or the next phase
BulkLoopEnd ==
  /\ i' = IF i + 1 < Len(cities) THEN i + 1 ELSE 0
  /\ pc' = IF i + 1 < Len(cities) THEN "bulk"
           ELSE AfterBulkMatching(geonames_matches', unmatched_cities')
  /\ events' = Visit("BulkMatching")

\* one turn of the matching loop that puts the city on the unmatched list
\* whether it was matched or not
BulkMatchKeepsMatched ==
  /\ pc = "bulk"
  /\ i < Len(cities)
  /\ city' = cities[i + 1]
  /\ population' = match_city(data_by_country, city')
  /\ unmatched_cities' = Append(unmatched_cities, city')
  /\ IF population' # None
     THEN /\ geonames_matches' =
               Append(geonames_matches, MatchResult(city'.id, population'[1], "geonames"))
          /\ stats' = [stats EXCEPT !.geonames_matches = @ + 1]
     ELSE UNCHANGED <<geonames_matches, stats>>
  /\ BulkLoopEnd
  /\ UNCHANGED <<normVars, parseVars, file_rows, data_by_country, match_pc, config, dbVars, fatal,
                 exit_code, cities, wikidata_matches, updVars, wikiVars, init_table,
                 table_at_begin, writes_begun, committed, summary_emitted,
                 requests_sent, prev_request, in_flight, log, last_failure,
                 queried>>

\* one turn of the matching loop: population = geonames.match_city(city)
BulkMatch ==
  /\ pc = "bulk"
  /\ i < Len(cities)
  /\ city' = cities[i + 1]
  /\ population' = match_city(data_by_country, city')
  /\ IF population' # None
     THEN /\ geonames_matches' =
               Append(geonames_matches, MatchResult(city'.id, population'[1], "geonames"))
          /\ stats' = [stats EXCEPT !.geonames_matches = @ + 1]
          /\ UNCHANGED unmatched_cities
     ELSE /\ unmatched_cities' = Append(unmatched_cities, city')
          /\ UNCHANGED <<geonames_matches, stats>>
  /\ BulkLoopEnd
  /\ UNCHANGED <<normVars, parseVars, file_rows, data_by_country, match_pc, config, dbVars, fatal,
                 exit_code, cities, wikidata_matches, updVars, wikiVars, init_table,
                 table_at_begin, writes_begun, committed, summary_emitted,
                 requests_sent, prev_request, in_flight, log, last_failure,
                 queried>>

\* one turn of the matching loop in which match_city raises and the handler
\* only counts the error
BulkMatchRaisesDrops ==
  /\ pc = "bulk"
  /\ i < Len(cities)
  /\ stats.errors < MaxBulkErrors
  /\ city' = cities[i + 1]
  /\ stats' = [stats EXCEPT !.errors = @ + 1]
  /\ UNCHANGED <<geonames_matches, unmatched_cities>>
  /\ BulkLoopEnd
  /\ UNCHANGED <<normVars, parseVars, file_rows, data_by_country, population, match_pc, config,
                 dbVars, fatal, exit_code, cities, wikidata_matches, updVars, wikiVars,
                 init_table, table_at_begin, writes_begun, committed, summary_emitted,
                 requests_sent, prev_request, in_flight, log, last_failure,
                 queried>>

\* one turn of the matching loop in which match_city raises
BulkMatchRaises ==
  /\ pc = "bulk"
  /\ i < Len(cities)
  /\ stats.errors < MaxBulkErrors
  /\ city' = cities[i + 1]
  /\ stats' = [stats EXCEPT !.errors = @ + 1]
  /\ unmatched_cities' = Append(unmatched_cities, city')
  /\ UNCHANGED geonames_matches
  /\ BulkLoopEnd
  /\ UNCHANGED <<normVars, parseVars, file_rows, data_by_country, population, match_pc, config,
                 dbVars, fatal, exit_code, cities, wikidata_matches, updVars, wikiVars,
                 init_table, table_at_begin, writes_begun, committed, summary_emitted,
                 requests_sent, prev_request, in_flight, log, last_failure,
                 queried>>

\* ---- update_populations(batch), called from the two batch loops of main()
Persisting == pc \in {"persist_bulk", "persist_remote"}
PersistList == IF pc = "persist_bulk" THEN geonames_matches ELSE wikidata_matches
PhaseOfSource(source) == IF source = "geonames" THEN "PersistingBulk" ELSE "PersistingRemote"

\* batch = matches[i:i + BATCH_SIZE]; db.update_populations(batch) is entered
UpdBegin ==
  /\ Persisting
  /\ upd_pc = "idle"
  /\ i < Len(PersistList)
  /\ batch' = Slice(PersistList, i, config.BATCH_SIZE)
  /\ upd_pc' = IF batch' = <<>> THEN "idle" ELSE "create"
  /\ table_at_begin' = table
  /\ writes_begun' = writes_begun + 1
  /\ events' = Visit(PhaseOfSource(PersistList[i + 1].source))
  /\ UNCHANGED <<normVars, parseVars, matchVars, config, dbVars, mainVars, updated, wikiVars,
                 init_table, committed, summary_emitted, requests_sent, prev_request,
                 in_flight, log, last_failure, queried>>

\* CREATE TEMPORARY TABLE tmp_city_pop (...) ON COMMIT DROP
UpdCreate ==
  /\ Persisting
  /\ upd_pc = "create"
  /\ ~tmp_city_pop.exists
  /\ tmp_city_pop' = [exists |-> TRUE, rows |-> <<>>]
  /\ upd_pc' = "insert"
  /\ UNCHANGED <<normVars, parseVars, matchVars, config, table, working, conn, mainVars, batch,
                 updated, wikiVars, histVars>>

\* execute_values(cursor, "INSERT INTO tmp_city_pop (id, population) VALUES %s", values)
UpdInsert ==
  /\ Persisting
  /\ upd_pc = "insert"
  /\ PrimaryKeyOk(Values(batch))
  /\ tmp_city_pop' = [tmp_city_pop EXCEPT !.rows = Values(batch)]
  /\ upd_pc' = "update"
  /\ UNCHANGED <<normVars, parseVars, matchVars, config, table, working, conn, mainVars, batch,
                 updated, wikiVars, histVars>>

\* UPDATE public.cities ... FROM tmp_city_pop; updated = cursor.rowcount
UpdUpdate ==
  /\ Persisting
  /\ upd_pc = "update"
  /\ working' = UpdateJoin(working, tmp_city_pop.rows)
  /\ updated' = RowCount(working, tmp_city_pop.rows)
  /\ upd_pc' = "commit"
  /\ UNCHANGED <<normVars, parseVars, matchVars, config, table, tmp_city_pop, conn, mainVars,
                 batch, wikiVars, histVars>>

\* self.conn.commit(); return updated; the loop of main() goes on with the
\* next batch, or main() with the next phase
UpdCommit ==
  /\ Persisting
  /\ upd_pc = "commit"
  /\ table' = working
  /\ tmp_city_pop' = NoTmp
  /\ upd_pc' = "idle"
  /\ committed' = committed \o batch
  /\ IF i + config.BATCH_SIZE < Len(PersistList)
     THEN /\ i' = i + config.BATCH_SIZE
          /\ UNCHANGED <<pc, stats>>
     ELSE /\ i' = 0
          /\ pc' = IF pc = "persist_bulk" THEN AfterPersistBulk(unmatched_cities)
                   ELSE "summary"
          /\ stats' = IF pc = "persist_bulk" /\ unmatched_cities = <<>>
                      THEN [stats EXCEPT !.no_match = 0] ELSE stats
  /\ UNCHANGED <<normVars, parseVars, matchVars, config, working, conn, fatal, exit_code, cities,
                 geonames_matches, unmatched_cities, wikidata_matches, batch, updated,
                 wikiVars, init_table, table_at_begin, events, writes_begun,
                 summary_emitted, requests_sent, prev_request, in_flight, log,
                 last_failure, queried>>

\* the handler commits what the transaction did so far
RollbackKeepsWork(committed_rows, uncommitted_rows) == uncommitted_rows

\* self.conn.rollback(): the committed rows after it
rollback(committed_rows, uncommitted_rows) == committed_rows

\* the handler logs the error and main() goes on to its summary
LogsAndContinues(caller_pc) == "summary"

\* except Exception as e: ... raise: the exception leaves update_populations
\* and the batch loop of main() for the handler of main()
ReraiseTo(caller_pc) == "except"

\* a statement of update_populations, or the commit, raises: the handler
\* rolls back and raises again, which reaches the handler of main()
UpdFails ==
  /\ Persisting
  /\ upd_pc \in {"create", "insert", "update", "commit"}
  /\ table' = rollback(table, working)
  /\ working' = table'
  /\ tmp_city_pop' = NoTmp
  /\ upd_pc' = "raised"
  /\ pc' = ReraiseTo(pc)
  /\ UNCHANGED <<normVars, parseVars, matchVars, config, conn, fatal, exit_code, cities, stats,
                 geonames_matches, unmatched_cities, wikidata_matches, i, batch,
                 updated, wikiVars, histVars>>

\* ---- wikidata.match_cities(unmatched_cities)
\* the failed requests of the run so far
RECURSIVE CountFails(_)
CountFails(outcomes) ==
  IF outcomes = <<>> THEN 0
  ELSE Len(SelectSeq(Head(outcomes), LAMBDA o : o = "fail")) + CountFails(Tail(outcomes))
FailedRequests == CountFails(log)

\* WikidataProvider(WIKIDATA_MAX_QPS) is built and match_cities takes the
\* first target
RemoteStart ==
  /\ pc = "remote"
  /\ w_pc = "idle"
  /\ w_pc' = "attempt"
  /\ w_i' = 0
  /\ attempt' = 1
  /\ last_request' = 0
  /\ wikidata_matches' = <<>>
  /\ events' = Visit("RemoteMatching")
  /\ UNCHANGED <<normVars, parseVars, matchVars, config, dbVars, pc, fatal, exit_code, cities,
                 stats, geonames_matches, unmatched_cities, i, updVars, clock,
                 init_table, table_at_begin, writes_begun, committed, summary_emitted,
                 requests_sent, prev_request, in_flight, log, last_failure,
                 queried>>

\* _query, one attempt: _rate_limit sleeps for what is left of the delay and
\* stamps _last_request, then client.get is sent
SendRequest ==
  /\ pc = "remote"
  /\ w_pc = "attempt"
  /\ clock' = clock + RateLimitSleep(clock, last_request, Delay(config.WIKIDATA_MAX_QPS))
  /\ last_request' = clock'
  /\ w_pc' = "in_flight"
  /\ prev_request' = IF requests_sent = 0 THEN -1 ELSE last_request
  /\ requests_sent' = requests_sent + 1
  /\ in_flight' = in_flight + 1
  /\ log' = IF attempt = 1 THEN Append(log, <<>>) ELSE log
  /\ queried' = IF attempt = 1 THEN Append(queried, unmatched_cities[w_i + 1].id)
                ELSE queried
  /\ events' = Visit("RemoteMatching")
  /\ UNCHANGED <<normVars, parseVars, matchVars, config, dbVars, mainVars, updVars, w_i, attempt,
                 init_table, table_at_begin, writes_begun, committed, summary_emitted,
                 last_failure>>

\* every record given to the remote matcher counts as without a match
NoMatchCountsAll(unmatched, matches) == Len(unmatched)

\* stats.no_match = len(unmatched_cities) - len(wikidata_matches)
NoMatch(unmatched, matches) == Len(unmatched) - Len(matches)

\* match_cities goes on with the next target, or returns to main(), which
\* sets the statistics and goes on to the Wikidata batches or the summary
NextTarget ==
  /\ w_i' = w_i + 1
  /\ attempt' = 1
  /\ IF w_i + 1 < Len(unmatched_cities)
     THEN /\ w_pc' = "attempt"
          /\ UNCHANGED <<pc, stats, i>>
     ELSE /\ w_pc' = "returned"
          /\ stats' = [stats EXCEPT
                         !.wikidata_matches = Len(wikidata_matches'),
                         !.no_match = NoMatch(unmatched_cities, wikidata_matches')]
          /\ pc' = AfterRemote(wikidata_matches')
          /\ i' = 0

\* the response arrives and is parsed; a population found is a match
ReceiveOk ==
  /\ pc = "remote"
  /\ w_pc = "in_flight"
  /\ \E bindings \in Responses(unmatched_cities[w_i + 1]), took \in RespTicks :
       LET target == unmatched_cities[w_i + 1]
           found == parse_result(target, bindings)
       IN /\ clock' = clock + took
          /\ wikidata_matches' =
               IF found # None
               THEN Append(wikidata_matches, MatchResult(target.id, found[1], "wikidata"))
               ELSE wikidata_matches
  /\ in_flight' = in_flight - 1
  /\ log' = [log EXCEPT ![Len(log)] = Append(@, "ok")]
  /\ last_failure' = "none"
  /\ NextTarget
  /\ UNCHANGED <<normVars, parseVars, matchVars, config, dbVars, fatal, exit_code, cities,
                 geonames_matches, unmatched_cities, updVars, last_request, init_table,
                 table_at_begin, events, writes_begun, committed, summary_emitted,
                 requests_sent, prev_request, queried>>

\* the request fails and is tried again as the same attempt: the attempts
\* are not counted
RetryUncounted ==
  /\ pc = "remote"
  /\ w_pc = "in_flight"
  /\ FailedRequests < MaxRemoteFailures
  /\ \E failure \in FailureKinds :
       /\ ShouldRetry(failure)
       /\ last_failure' = failure
       /\ \E took \in RespTicks : clock' = clock + took + wait_exponential(attempt)
  /\ in_flight' = in_flight - 1
  /\ log' = [log EXCEPT ![Len(log)] = Append(@, "fail")]
  /\ w_pc' = "attempt"
  /\ UNCHANGED <<normVars, parseVars, matchVars, config, dbVars, mainVars, updVars, w_i,
                 attempt, last_request, init_table, table_at_begin, events, writes_begun,
                 committed, summary_emitted, requests_sent, prev_request, queried>>

\* the request fails and is tried again after the backoff wait
ReceiveFailureRetry ==
  /\ pc = "remote"
  /\ w_pc = "in_flight"
  /\ FailedRequests < MaxRemoteFailures
  /\ attempt < STOP_AFTER_ATTEMPT
  /\ \E failure \in FailureKinds :
       /\ ShouldRetry(failure)
       /\ last_failure' = failure
       /\ \E took \in RespTicks : clock' = clock + took + wait_exponential(attempt)
  /\ in_flight' = in_flight - 1
  /\ log' = [log EXCEPT ![Len(log)] = Append(@, "fail")]
  /\ attempt' = attempt + 1
  /\ w_pc' = "attempt"
  /\ UNCHANGED <<normVars, parseVars, matchVars, config, dbVars, mainVars, updVars, w_i,
                 last_request, init_table, table_at_begin, events, writes_begun,
                 committed, summary_emitted, requests_sent, prev_request, queried>>

\* the request fails and is not tried again: _query raises and the exception
\* leaves match_cities for the handler of main()
ReceiveFailureAborts ==
  /\ pc = "remote"
  /\ w_pc = "in_flight"
  /\ FailedRequests < MaxRemoteFailures
  /\ \E failure \in FailureKinds :
       /\ attempt >= STOP_AFTER_ATTEMPT \/ ~ShouldRetry(failure)
       /\ \E took \in RespTicks : clock' = clock + took
  /\ in_flight' = in_flight - 1
  /\ log' = [log EXCEPT ![Len(log)] = Append(@, "fail")]
  /\ last_failure' = "none"
  /\ w_pc' = "returned"
  /\ pc' = "except"
  /\ UNCHANGED <<normVars, parseVars, matchVars, config, dbVars, fatal, exit_code, cities, stats,
                 geonames_matches, unmatched_cities, wikidata_matches, i, updVars, w_i,
                 attempt, last_request, init_table, table_at_begin, events,
                 writes_begun, committed, summary_emitted, requests_sent, prev_request,
                 queried>>

\* the request fails and is not tried again: _query raises, match_cities
\* logs a warning and goes on
ReceiveFailureGiveUp ==
  /\ pc = "remote"
  /\ w_pc = "in_flight"
  /\ FailedRequests < MaxRemoteFailures
  /\ \E failure \in FailureKinds :
       /\ attempt >= STOP_AFTER_ATTEMPT \/ ~ShouldRetry(failure)
       /\ \E took \in RespTicks : clock' = clock + took
  /\ in_flight' = in_flight - 1
  /\ log' = [log EXCEPT ![Len(log)] = Append(@, "fail")]
  /\ last_failure' = "none"
  /\ UNCHANGED wikidata_matches
  /\ NextTarget
  /\ UNCHANGED <<normVars, parseVars, matchVars, config, dbVars, fatal, exit_code, cities,
                 geonames_matches, unmatched_cities, updVars, last_request,
                 init_table, table_at_begin, events, writes_begun, committed,
                 summary_emitted, requests_sent, prev_request, queried>>

\* ---- the end of main()
\* stats.print_summary()
Summary ==
  /\ pc = "summary"
  /\ summary_emitted' = TRUE
  /\ pc' = "finally"
  /\ UNCHANGED <<normVars, parseVars, matchVars, config, dbVars, fatal, exit_code, cities, stats,
                 geonames_matches, unmatched_cities, wikidata_matches, i, updVars,
                 wikiVars, init_table, table_at_begin, events, writes_begun, committed,
                 requests_sent, prev_request, in_flight, log, last_failure,
                 queried>>

\* except Exception: the fatal error is logged and sys.exit(1) is raised
Except ==
  /\ pc = "except"
  /\ fatal' = TRUE
  /\ pc' = "finally"
  /\ UNCHANGED <<normVars, parseVars, matchVars, config, dbVars, exit_code, cities, stats,
                 geonames_matches, unmatched_cities, wikidata_matches, i, updVars,
                 wikiVars, histVars>>

\* the connection is closed with the open transaction made durable
CloseCommits(committed_rows, uncommitted_rows) == uncommitted_rows

\* self.conn.close(): the rows of the store after it; the open transaction
\* of a closed connection is discarded
close(committed_rows, uncommitted_rows) == committed_rows

\* finally: db.close(); then the run ends: with status 1 after sys.exit(1),
\* with the uncaught KeyboardInterrupt ("killed", status 130) after an
\* interruption
Finally ==
  /\ pc \in {"finally", "interrupted"}
  /\ conn' = "closed"
  /\ table' = close(table, working)
  /\ working' = table'
  /\ tmp_city_pop' = NoTmp
  /\ pc' = IF pc = "interrupted" THEN "killed" ELSE "done"
  /\ exit_code' = IF pc = "interrupted" THEN 130 ELSE IF fatal THEN 1 ELSE 0
  /\ events' = Visit("Done")
  /\ UNCHANGED <<normVars, parseVars, matchVars, config, fatal,
                 cities, stats, geonames_matches, unmatched_cities, wikidata_matches,
                 i, updVars, wikiVars, init_table, table_at_begin, writes_begun,
                 committed, summary_emitted, requests_sent, prev_request, in_flight,
                 log, last_failure, queried>>

\* the positions of main() inside its try statement: the body and the handler
InTry ==
  {"fetch", "acquire", "bulk", "persist_bulk", "remote", "persist_remote", "summary", "except"}

\* the interruption ends the process at once: no finally clause runs
InterruptEndsRun ==
  /\ pc \in InTry
  /\ pc' = "killed"
  /\ UNCHANGED <<normVars, parseVars, matchVars, config, dbVars, fatal, exit_code, cities, stats,
                 geonames_matches, unmatched_cities, wikidata_matches, i, updVars,
                 wikiVars, histVars>>

\* a KeyboardInterrupt is raised while main() is inside its try statement:
\* it is no Exception, so neither the handler of update_populations (no
\* rollback) nor the handler of main() catches it, and only the finally
\* clause of main() runs
Interrupt ==
  /\ pc \in InTry
  /\ pc' = "interrupted"
  /\ UNCHANGED <<normVars, parseVars, matchVars, config, dbVars, fatal, exit_code, cities, stats,
                 geonames_matches, unmatched_cities, wikidata_matches, i, updVars,
                 wikiVars, histVars>>

\* ------------------------------------------------------------------------
\* SpecUpdate: update_populations is called once, with matches whose ids
\* need not be ids of the store
\* ------------------------------------------------------------------------
\* the ids of the store and one id that no row has
BatchIds == 1..(NumCities + 1)
BatchMatches == {MatchResult(id, 700 + id, "geonames") : id \in BatchIds}

InitUpdate ==
  /\ NormIdle
  /\ MatchIdle
  /\ ParseIdle
  /\ config = [BATCH_SIZE |-> MaxBatch, ONLY_NULL |-> TRUE, WIKIDATA_MAX_QPS |-> 20]
  /\ table \in InitialTables
  /\ working = table /\ tmp_city_pop = NoTmp /\ conn = "open"
  /\ pc = "persist_bulk" /\ fatal = FALSE /\ exit_code = -1
  /\ cities = <<>> /\ stats = NoStats
  /\ geonames_matches \in SeqsUpTo(BatchMatches, MaxBatch)
  /\ unmatched_cities = <<>> /\ wikidata_matches = <<>> /\ i = 0
  /\ upd_pc = "idle" /\ batch = <<>> /\ updated = 0
  /\ w_pc = "idle" /\ w_i = 0 /\ attempt = 0 /\ clock = StartClock /\ last_request = 0
  /\ init_table = table /\ table_at_begin = table /\ events = <<>>
  /\ writes_begun = 0 /\ committed = <<>> /\ summary_emitted = FALSE
  /\ requests_sent = 0 /\ prev_request = -1 /\ in_flight = 0 /\ log = <<>>
  /\ last_failure = "none" /\ queried = <<>>

NextUpdate == UpdBegin \/ UpdCreate \/ UpdInsert \/ UpdUpdate \/ UpdCommit \/ UpdFails

SpecUpdate == InitUpdate /\ [][NextUpdate]_vars

\* ------------------------------------------------------------------------
\* SpecTwice: update_populations is called with a batch and, once that call
\* has committed, again with the same batch
\* ------------------------------------------------------------------------
\* db.update_populations(batch) is entered a second time
UpdAgain ==
  /\ pc = "summary"
  /\ upd_pc = "idle"
  /\ writes_begun = 1
  /\ batch # <<>> /\ committed = batch
  /\ pc' = "persist_bulk"
  /\ upd_pc' = "create"
  /\ table_at_begin' = table
  /\ writes_begun' = writes_begun + 1
  /\ UNCHANGED <<normVars, parseVars, matchVars, config, dbVars, fatal, exit_code, cities, stats,
                 geonames_matches, unmatched_cities, wikidata_matches, i, batch, updated,
                 wikiVars, init_table, events, committed, summary_emitted, requests_sent,
                 prev_request, in_flight, log, last_failure, queried>>

NextTwice ==
  \/ UpdBegin \/ UpdCreate \/ UpdInsert \/ UpdUpdate \/ UpdCommit \/ UpdFails
  \/ UpdAgain

SpecTwice == InitUpdate /\ [][NextTwice]_vars

Next ==
  \/ Connect \/ ConnectFails
  \/ Fetch \/ FetchFails
  \/ Acquire \/ AcquireFails
  \/ BulkMatch \/ BulkMatchRaises
  \/ UpdBegin \/ UpdCreate \/ UpdInsert \/ UpdUpdate \/ UpdCommit \/ UpdFails
  \/ RemoteStart \/ SendRequest \/ ReceiveOk \/ ReceiveFailureRetry
  \/ ReceiveFailureGiveUp
  \/ Summary \/ Except \/ Finally

Spec == Init /\ [][Next]_vars

\* ------------------------------------------------------------------------
\* SpecInterrupt: the run of main() with an interruption from outside
\* ------------------------------------------------------------------------
NextInterrupt ==
  \/ Connect \/ ConnectFails
  \/ Fetch \/ FetchFails
  \/ Acquire \/ AcquireFails
  \/ BulkMatch \/ BulkMatchRaises
  \/ UpdBegin \/ UpdCreate \/ UpdInsert \/ UpdUpdate \/ UpdCommit \/ UpdFails
  \/ RemoteStart \/ SendRequest \/ ReceiveOk \/ ReceiveFailureRetry
  \/ ReceiveFailureGiveUp
  \/ Summary \/ Except \/ Finally
  \/ Interrupt

SpecInterrupt == Init /\ [][NextInterrupt]_vars

\* the records of the target's country, as a set
CountryRecords ==
  IF city.country_code \in DOMAIN data_by_country
  THEN {data_by_country[city.country_code][k] :
          k \in 1..Len(data_by_country[city.country_code])}
  ELSE {}

\* the great-circle distance from the target is at most the configured radius
InRadiusOfTarget(r) == CityDistance(city, r) <= MAX_RADIUS_KM * 1000

\* the records of equal normalized name (or ASCII name) within the radius
ExactInRadius ==
  {r \in CountryRecords :
     /\ NameEquals(r, normalize_name(city.name))
     /\ InRadiusOfTarget(r)}

\* C2: when a record of the target's country has the target's normalized
\* name and lies within the radius, match_city returns the population of
\* such a record
C2_ExactWinsOverFuzzy ==
  (match_pc = "matched" /\ ExactInRadius # {})
    => \E r \in ExactInRadius : population = Some(r.population)

\* C3: the record whose population match_city returns is never farther from
\* the target than the radius, whichever phase selected it and whether the
\* candidates were the 3x3 cells or the whole country
C3_NeverOutsideRadius ==
  (match_pc = "matched" /\ population # None)
    => \E r \in CountryRecords :
         /\ population = Some(r.population)
         /\ InRadiusOfTarget(r)

\* C3 witness: the 3x3 cells were empty, so the whole country was scanned; a
\* record of the target's exact name lies outside the radius, and the
\* population of another record was returned
C3_Witness ==
  /\ match_pc = "matched"
  /\ CountryRecords # {}
  /\ NearbyRecords(data_by_country[city.country_code], city) = <<>>
  /\ \E r \in CountryRecords :
       NameEquals(r, normalize_name(city.name)) /\ ~InRadiusOfTarget(r)
  /\ population # None

\* C4: normalize_name is idempotent: normalizing a normalized name gives it back
C4_NormalizeIdempotent == norm_pc = "twice" => renormalized = normalized

\* ------------------------------------------------------------------------
\* The run of main(): what the claims speak of
\* ------------------------------------------------------------------------
\* the members of a sequence, as a set
Members(seq) == {seq[k] : k \in 1..Len(seq)}

\* the store holds, of the given matches, the population of none
CarriesNoneOf(rows, matches) ==
  \A m \in Members(matches) : rows[m.city_id] # m.population

\* the store as the run found it, with exactly the given matches applied
StoreWith(matches) ==
  [id \in Ids |->
     IF \E m \in Members(matches) : m.city_id = id
     THEN (CHOOSE m \in Members(matches) : m.city_id = id).population
     ELSE init_table[id]]

InUpdate == upd_pc \in {"create", "insert", "update", "commit"}

\* C1: update_populations is all-or-nothing per batch: while the batch is
\* staged and joined the store is as it was; after a failure the store
\* carries no population of the batch, the transaction is rolled back (the
\* staging table and the uncommitted rows are gone) and the failure has
\* reached the caller's handler; and the store changes only in the step that
\* commits, which applies the whole batch
C1_BatchAllOrNothing ==
  /\ [](InUpdate => table = table_at_begin)
  /\ [](upd_pc = "raised" =>
          /\ table = table_at_begin
          /\ CarriesNoneOf(table, batch)
          /\ working = table
          /\ ~tmp_city_pop.exists
          /\ pc \in {"except", "finally", "done"})
  /\ [][table' # table =>
          /\ upd_pc = "commit" /\ upd_pc' = "idle"
          /\ \A m \in Members(batch) : table'[m.city_id] = m.population
          /\ \A id \in Ids :
               (\A m \in Members(batch) : m.city_id # id) => table'[id] = table[id]]_vars

\* C1 witness: the first batch failed after its UPDATE had changed a row
C1_Witness ==
  /\ upd_pc = "raised"
  /\ committed = <<>>
  /\ updated > 0
  /\ batch # <<>>

\* C5: at most one request is in flight, the targets are taken up in the
\* order of the list, and two consecutive requests start at least 1/max_qps
\* seconds apart
C5_RateLimitedSequential ==
  /\ in_flight <= 1
  /\ Len(queried) <= Len(unmatched_cities)
  /\ \A k \in 1..Len(queried) : queried[k] = unmatched_cities[k].id
  /\ prev_request # -1 =>
       (last_request - prev_request) * config.WIKIDATA_MAX_QPS >= 10 * TicksPerSecond

\* C5 witness: the first request for the second target is in flight, sent
\* after a sleep that made up the delay exactly
C5_Witness ==
  /\ w_pc = "in_flight"
  /\ Len(log) = 2
  /\ log[2] = <<>>
  /\ (last_request - prev_request) * config.WIKIDATA_MAX_QPS = 10 * TicksPerSecond
  /\ config.WIKIDATA_MAX_QPS < 10

\* the target of the k-th entry of the log failed in all its attempts
AllFailed(k) == log[k] # <<>> /\ \A n \in 1..Len(log[k]) : log[k][n] = "fail"
Exhausted(k) == AllFailed(k) /\ (k < Len(log) \/ w_pc = "returned")

\* C6: a target is requested at most 3 times and never after a success; a
\* target whose attempts all failed yields no match; that failure never
\* reaches the handler of main(); match_cities returns only when every
\* target was queried; and a run that ends normally has committed every
\* remote match and printed the summary
C6_RetryCapNotFatal ==
  /\ \A k \in 1..Len(log) :
       /\ Len(log[k]) <= 3
       /\ \A n \in 1..Len(log[k]) : log[k][n] = "ok" => n = Len(log[k])
       /\ Exhausted(k) => \A m \in Members(wikidata_matches) : m.city_id # queried[k]
  /\ (requests_sent > 0 /\ (fatal \/ pc = "except")) => upd_pc = "raised"
  /\ w_pc = "returned" =>
       /\ Len(queried) = Len(unmatched_cities)
       /\ pc \in {"persist_remote", "summary", "finally", "done", "except"}
  /\ (pc = "done" /\ ~fatal /\ requests_sent > 0) =>
       /\ Members(wikidata_matches) \subseteq Members(committed)
       /\ summary_emitted

\* C6 witness: the first target failed three times, the second was queried
\* and matched, and the run ended normally
C6_Witness ==
  /\ pc = "done"
  /\ ~fatal
  /\ Len(log) = 2
  /\ log[1] = <<"fail", "fail", "fail">>
  /\ wikidata_matches # <<>>

\* C7: a request is attempted again only after a transient failure (timeout,
\* 5xx, rate-limit signal, malformed response)
C7_RetryOnlyTransient ==
  (w_pc = "attempt" /\ attempt > 1) => last_failure \in TransientKinds

\* the place of a phase in Fetching, BulkMatching, PersistingBulk,
\* RemoteMatching, PersistingRemote, Done
PhaseOrder ==
  <<"Fetching", "BulkMatching", "PersistingBulk", "RemoteMatching", "PersistingRemote",
    "Done">>
Rank(phase) == CHOOSE k \in 1..Len(PhaseOrder) : PhaseOrder[k] = phase

\* C8: the phases are visited in their order; nothing is bulk-matched once a
\* write has begun; no request is sent before every GeoNames match is
\* committed; no Wikidata batch is written before match_cities has returned
C8_PhaseOrder ==
  /\ \A k \in 1..(Len(events) - 1) : Rank(events[k]) < Rank(events[k + 1])
  /\ writes_begun > 0 => pc \notin {"connect", "fetch", "acquire", "bulk"}
  /\ requests_sent > 0 => Members(geonames_matches) \subseteq Members(committed)
  /\ (\E m \in Members(batch) \cup Members(committed) : m.source = "wikidata") =>
       w_pc = "returned"

\* C8 witness: a run that went through every phase
C8_Witness == pc = "done" /\ events = PhaseOrder

\* C9: after a failed write the store holds exactly the batches committed
\* before it and nothing of the failed batch; no write is begun and no
\* request is sent from then on; a failure among the GeoNames batches is
\* followed by no request at all; and the run ends with status 1
C9_WriteFailureFatal ==
  /\ [](upd_pc = "raised" =>
          /\ table = StoreWith(committed)
          /\ \A m \in Members(batch) : table[m.city_id] = init_table[m.city_id]
          /\ pc \in {"except", "finally", "done"}
          /\ (batch[1].source = "geonames" => requests_sent = 0)
          /\ (pc = "done" => exit_code = 1 /\ fatal))
  /\ [][upd_pc = "raised" =>
          /\ writes_begun' = writes_begun
          /\ requests_sent' = requests_sent
          /\ table' = table
          /\ upd_pc' = "raised"]_vars

\* C9 witness: a Wikidata batch failed after a GeoNames batch was committed,
\* and the run has ended
C9_Witness ==
  /\ upd_pc = "raised"
  /\ pc = "done"
  /\ committed # <<>>
  /\ batch # <<>>
  /\ batch[1].source = "wikidata"
  /\ table # init_table

RecoveredFailure == stats.errors > 0 \/ \E k \in 1..Len(log) : Exhausted(k)

BulkMatchedIds == {m.city_id : m \in Members(geonames_matches)}

\* the matching loop has gone through every fetched record
BulkLoopDone == cities # <<>> /\ Len(geonames_matches) + Len(unmatched_cities) = Len(cities)

\* what the remote matcher is given right after the matching loop: in fetch
\* order, the fetched records without a bulk match, which are the records
\* for which match_city returns none and, beyond those, only records on
\* which it raised
UnmatchedAreTheRest ==
  /\ unmatched_cities = SelectSeq(cities, LAMBDA c : c.id \notin BulkMatchedIds)
  /\ \A c \in Members(cities) :
       match_city(data_by_country, c) = None => c \in Members(unmatched_cities)
  /\ \A m \in Members(geonames_matches) :
       \E c \in Members(cities) :
         c.id = m.city_id /\ match_city(data_by_country, c) = Some(m.population)
  /\ Cardinality({c \in Members(unmatched_cities) :
                    match_city(data_by_country, c) # None}) <= stats.errors

\* C12: with no record left unmatched no request is ever sent; otherwise the
\* remote matcher is given, in fetch order, exactly the fetched records for
\* which bulk matching returned none or raised, the lists stay as the loop
\* left them, and the targets are queried in the order of the list
C12_RemoteGetsUnmatched ==
  /\ []((requests_sent > 0 \/ w_pc # "idle") => (BulkLoopDone /\ unmatched_cities # <<>>))
  /\ []((BulkLoopDone /\ unmatched_cities = <<>>) => (requests_sent = 0 /\ w_pc = "idle"))
  /\ []((BulkLoopDone /\ writes_begun = 0 /\ w_pc = "idle") => UnmatchedAreTheRest)
  /\ [][BulkLoopDone =>
          UNCHANGED <<cities, data_by_country, geonames_matches, unmatched_cities>>]_vars
  /\ [](\A k \in 1..Len(queried) :
          k <= Len(unmatched_cities) /\ queried[k] = unmatched_cities[k].id)
  /\ [](w_pc = "returned" => Len(queried) = Len(unmatched_cities))

\* C12 witness: one record was matched in bulk, the other is of a country
\* the dataset does not have, and the remote matcher went through its list
C12_Witness ==
  /\ w_pc = "returned"
  /\ geonames_matches # <<>>
  /\ \E c \in Members(unmatched_cities) : c.country_code \notin DOMAIN data_by_country

\* C13: the step in which match_city raises on a record adds exactly one to
\* the errors counter and to nothing else, adds no bulk match, puts the
\* record on the unmatched list and goes on with the loop or the next phase,
\* never to the handler of main(); the loop then ends only when every
\* fetched record was taken up, and the remote matcher queries every record
\* on the unmatched list
C13_MatchErrorNotFatal ==
  /\ [][stats'.errors # stats.errors =>
          /\ stats' = [stats EXCEPT !.errors = @ + 1]
          /\ geonames_matches' = geonames_matches
          /\ unmatched_cities' = Append(unmatched_cities, cities[i + 1])
          /\ pc = "bulk"
          /\ pc' \in {"bulk", "persist_bulk", "remote"}
          /\ fatal' = FALSE]_vars
  /\ [][\A k \in 1..Len(unmatched_cities) :
          k <= Len(unmatched_cities') /\ unmatched_cities'[k] = unmatched_cities[k]]_vars
  /\ []((stats.errors > 0 /\ pc \notin {"bulk", "except", "finally", "done"}) => BulkLoopDone)
  /\ []((stats.errors > 0 /\ pc = "except") => upd_pc = "raised")
  /\ [](w_pc = "returned" =>
          \A c \in Members(unmatched_cities) : c.id \in Members(queried))

\* C13 witness: match_city raised on the first record, which the dataset
\* would have matched; the second was matched in bulk, the first was queried
\* remotely, and the run ended normally
C13_Witness ==
  /\ pc = "done"
  /\ ~fatal
  /\ stats.errors = 1
  /\ Len(cities) = 2
  /\ unmatched_cities = <<cities[1]>>
  /\ match_city(data_by_country, cities[1]) # None
  /\ Len(geonames_matches) = 1
  /\ queried = <<cities[1].id>>

\* the bindings of the response that _parse_result can select: a positive
\* population, a point, within the radius of the target
Selectable ==
  {b \in Members(parse_bindings) :
     /\ b.pop.kind = "num" /\ b.pop.value > 0
     /\ b.coord.kind = "point"
     /\ haversine_distance(parse_city.lat, parse_city.lon, b.coord.lat, b.coord.lon)
          <= 30 * 1000}

\* fuzz.ratio of the normalized names of the target and of a binding's
\* label, in hundredths
LabelScore(b) == fuzz_ratio(normalize_name(parse_city.name), normalize_name(b.label))

\* C14: _parse_result returns a population only of a selectable binding
\* whose label scores at least 92 and no less than any other selectable
\* binding; when the best selectable binding scores less than 92 it returns
\* none
C14_RemoteThreshold ==
  parse_pc = "parsed" =>
    /\ remote_population # None =>
         \E b \in Selectable :
           /\ remote_population = Some(b.pop.value)
           /\ LabelScore(b) >= 92 * 100
           /\ \A other \in Selectable : LabelScore(other) <= LabelScore(b)
    /\ (\A b \in Selectable : LabelScore(b) < 92 * 100) => remote_population = None

\* C14 witness: the only selectable bindings score 87.5, and none is returned
C14_Witness ==
  /\ parse_pc = "parsed"
  /\ Selectable # {}
  /\ \A b \in Selectable : LabelScore(b) = 8750
  /\ remote_population = None

\* C15: a score that _parse_result accepts is at least the minimum score of
\* the fuzzy phase of match_city
C15_RemoteStricterThanBulk ==
  (parse_pc = "parsed" /\ remote_population # None) =>
    \A b \in Selectable :
      remote_population = Some(b.pop.value) => LabelScore(b) >= FUZZY_MATCH_THRESHOLD * 100

\* the rows of the file that are well formed: at least 15 fields, feature
\* class P, a population field that reads as a number above zero
GoodRows ==
  SelectSeq(file_rows,
            LAMBDA r : r.parts >= 15 /\ r.feature_class = "P" /\ r.pop_kind = "int"
                       /\ r.population > 0)

\* every record loaded, of every country
LoadedRecords ==
  UNION {Members(data_by_country[c]) : c \in DOMAIN data_by_country}

\* C16: after loading, every stored record has a population above zero and
\* there is one record for each well-formed row and none for the others;
\* match_city returns none or a value above zero
C16_PopulationPositive ==
  /\ match_pc \in {"loaded", "matched"} =>
       /\ \A r \in LoadedRecords : r.population > 0
       /\ \A c \in DOMAIN data_by_country :
            Len(data_by_country[c]) =
              Len(SelectSeq(GoodRows, LAMBDA r : r.country_code = c))
       /\ \A k \in 1..Len(GoodRows) : GoodRows[k].country_code \in DOMAIN data_by_country
  /\ match_pc = "matched" => (population = None \/ population[1] > 0)

\* C16 witness: the first row, of the target's name and place, has a
\* population that is not positive; the second is well formed, and its
\* population is returned
C16_Witness ==
  /\ match_pc = "matched"
  /\ Len(file_rows) = 2
  /\ file_rows[1].parts >= 15 /\ file_rows[1].feature_class = "P"
  /\ file_rows[1].pop_kind = "int" /\ file_rows[1].population <= 0
  /\ Len(GoodRows) = 1
  /\ population = Some(GoodRows[1].population)

\* only lowercase letters and single spaces, none at either end
LowercaseSingleSpaced(s) ==
  /\ \A k \in 1..Len(s) : s[k] \in AsciiLower \cup {" "}
  /\ s # <<>> => (s[1] # " " /\ s[Len(s)] # " ")
  /\ \A k \in 1..(Len(s) - 1) : ~(s[k] = " " /\ s[k + 1] = " ")

\* C17: the result of normalize_name holds only lowercase letters, digits
\* and single spaces, with no space at either end, and the empty name gives
\* the empty string
C17_NormalizedShape ==
  norm_pc \in {"once", "twice"} =>
    /\ LowercaseSingleSpaced(normalized)
    /\ raw_name = <<>> => normalized = <<>>

\* the store after the two batch loops of a run without a failed write, had
\* the run's matches been written with the given batch size
StoreWithBatchSize(batch_size) ==
  ApplyBatches(ApplyBatches(init_table, geonames_matches, 0, batch_size),
               wikidata_matches, 0, batch_size)

\* C18: a run that ends without a failed write leaves the store as every
\* batch size from 1 to beyond the number of matches would have left it,
\* with every match applied, and its statistics are those of the match
\* lists, whatever the batch size
C18_BatchSizeIrrelevant ==
  (pc = "done" /\ ~fatal /\ cities # <<>>) =>
    /\ \A batch_size \in 1..(NumCities + 1) : table = StoreWithBatchSize(batch_size)
    /\ table = StoreWith(geonames_matches \o wikidata_matches)
    /\ stats.total_cities = Len(cities)
    /\ stats.geonames_matches = Len(geonames_matches)
    /\ stats.wikidata_matches = Len(wikidata_matches)
    /\ stats.no_match = Len(cities) - Len(geonames_matches) - Len(wikidata_matches)

\* C18 witness: two matches were written in two batches of one, and the run
\* ended normally
C18_Witness ==
  /\ pc = "done"
  /\ ~fatal
  /\ config.BATCH_SIZE = 1
  /\ Len(geonames_matches) = 2
  /\ writes_begun = 2
  /\ table # init_table

\* C19: ids of the batch that no row has stop no statement of
\* update_populations; once it has committed, the rows whose id is in the
\* batch hold the batch's value, every other row is as before, no row was
\* added, and the count returned is the number of rows updated
C19_AbsentIdsSkipped ==
  /\ (upd_pc = "insert" /\ PrimaryKeyOk(Values(batch))) => ENABLED UpdInsert
  /\ upd_pc = "update" => ENABLED UpdUpdate
  /\ upd_pc = "commit" => ENABLED UpdCommit
  /\ (upd_pc = "idle" /\ committed # <<>>) =>
       /\ committed = batch
       /\ DOMAIN table = Ids
       /\ \A id \in Ids :
            /\ (\A m \in Members(batch) : m.city_id # id) => table[id] = init_table[id]
            /\ \A m \in Members(batch) : m.city_id = id => table[id] = m.population
       /\ updated = Cardinality({m.city_id : m \in Members(batch)} \cap Ids)

\* C19 witness: a batch of three whose second id no row has was committed;
\* the rows of the first and the third were updated and 2 was returned
C19_Witness ==
  /\ upd_pc = "idle"
  /\ committed = batch
  /\ Len(batch) = 3
  /\ batch[1].city_id \in Ids /\ batch[2].city_id \notin Ids /\ batch[3].city_id \in Ids
  /\ table[batch[1].city_id] = batch[1].population
  /\ table[batch[3].city_id] = batch[3].population
  /\ updated = 2

\* C20: the total counter is the number of records fetched and no step after
\* the fetch changes it; once the summary is printed the bulk matches, the
\* remote matches and the unmatched add up to the total, no counter changes
\* any more, and the errors are at most the remote matches and the unmatched
C20_StatisticsAddUp ==
  /\ [](stats.total_cities = Len(cities))
  /\ [][pc \notin {"connect", "fetch"} => stats'.total_cities = stats.total_cities]_vars
  /\ [](summary_emitted =>
          /\ stats.geonames_matches + stats.wikidata_matches + stats.no_match
               = stats.total_cities
          /\ stats.errors <= stats.wikidata_matches + stats.no_match
          /\ stats.total_cities > 0)
  /\ [][summary_emitted => stats' = stats]_vars

\* C20 witness: of two records one was matched in bulk; match_city raised on
\* the other, which was matched remotely; the summary was printed
C20_Witness ==
  /\ summary_emitted
  /\ stats.total_cities = 2
  /\ stats.geonames_matches = 1
  /\ stats.errors = 1
  /\ stats.wikidata_matches = 1
  /\ stats.no_match = 0

\* C21: once the download or the parsing of the dataset has failed, the run
\* is in or past the handler of main(), no record was matched, no request
\* was sent, no row of the store has changed and no write was begun; the run
\* ends with status 1
C21_AcquisitionFailureFatal ==
  match_pc = "failed" =>
    /\ pc \in {"except", "finally", "done"}
    /\ city = <<>> /\ population = None
    /\ geonames_matches = <<>> /\ unmatched_cities = <<>>
    /\ stats.geonames_matches = 0 /\ stats.errors = 0
    /\ requests_sent = 0 /\ w_pc = "idle"
    /\ table = init_table /\ working = init_table /\ writes_begun = 0
    /\ pc = "done" => (fatal /\ exit_code = 1)

\* C21 witness: records were fetched, the dataset could not be loaded, and
\* the run has ended
C21_Witness ==
  /\ match_pc = "failed"
  /\ pc = "done"
  /\ cities # <<>>

\* the run was interrupted from outside
Interrupted == pc \in {"interrupted", "killed"}

\* C22: after an interruption, between two batches or inside the transaction
\* of a batch, the store holds exactly the batches committed before it: the
\* interrupted batch has changed no row, and once the connection is closed
\* nothing of its transaction is left
C22_InterruptKeepsCommitted ==
  Interrupted =>
    /\ table = StoreWith(committed)
    /\ InUpdate =>
         /\ table = table_at_begin
         /\ \A m \in Members(batch) : table[m.city_id] = init_table[m.city_id]
    /\ pc = "killed" =>
         /\ working = table
         /\ ~tmp_city_pop.exists
         /\ conn = "closed"

\* C22 witness: one batch was committed, the next one was interrupted after
\* its UPDATE had changed a row, and the run has ended
C22_Witness ==
  /\ pc = "killed"
  /\ upd_pc = "commit"
  /\ updated > 0
  /\ committed # <<>>

\* the two phases of match_city, exact then fuzzy, over the target's whole
\* per-country list
FullCountryMatch ==
  IF city.country_code \notin DOMAIN data_by_country THEN None
  ELSE LET records == data_by_country[city.country_code]
           normalized_query == normalize_name(city.name)
           exact == ExactPhase(records, city, normalized_query, None, Inf)
       IN IF exact # None THEN exact
          ELSE FuzzyPhase(records, city, normalized_query, None, 0, Inf)

\* C23: the grid index is a pure optimisation: match_city returns what the
\* same two-phase match returns over the target's whole per-country list
C23_GridIsPureOptimisation ==
  match_pc = "matched" => population = FullCountryMatch

\* the candidate list of match_city for the target, as a set
CandidateSet ==
  IF city.country_code \in DOMAIN data_by_country
  THEN LET candidates == Candidates(data_by_country[city.country_code], city)
       IN {candidates[k] : k \in 1..Len(candidates)}
  ELSE {}

\* the candidates that qualify in the exact phase and in the fuzzy phase
ExactQualified ==
  {r \in CandidateSet : NameEquals(r, normalize_name(city.name)) /\ InRadiusOfTarget(r)}
FuzzyQualified ==
  {r \in CandidateSet :
     /\ FuzzyScore(r, normalize_name(city.name)) >= 94 * 100
     /\ InRadiusOfTarget(r)}

\* no candidate of the set is preferred to r in the fuzzy phase
BestFuzzy(r, among) ==
  \A o \in among :
     \/ FuzzyScore(r, normalize_name(city.name)) > FuzzyScore(o, normalize_name(city.name))
     \/ /\ FuzzyScore(r, normalize_name(city.name)) = FuzzyScore(o, normalize_name(city.name))
        /\ CityDistance(city, r) <= CityDistance(city, o)

BindingDistance(b) ==
  haversine_distance(parse_city.lat, parse_city.lon, b.coord.lat, b.coord.lon)

\* the bindings that _parse_result is said to ignore, taken out of the list
WithoutIgnored(bindings) ==
  LET Keep(b) == b \in Selectable IN SelectSeq(bindings, Keep)

\* C25: _parse_result ignores the bindings outside the radius, without a
\* positive integer population or without a point: it returns what it
\* returns for the list without them; a returned population is positive and
\* is that of a remaining binding that no other one beats by a higher score
\* or, on equal score, by a smaller distance
C25_RemoteSelection ==
  parse_pc = "parsed" =>
    /\ remote_population = parse_result(parse_city, WithoutIgnored(parse_bindings))
    /\ Selectable = {} => remote_population = None
    /\ remote_population # None =>
         \E b \in Selectable :
           /\ remote_population = Some(b.pop.value)
           /\ b.pop.value > 0
           /\ \A o \in Selectable :
                \/ LabelScore(b) > LabelScore(o)
                \/ LabelScore(b) = LabelScore(o) /\ BindingDistance(b) <= BindingDistance(o)

\* C25 witness: a binding of the target's exact name lies outside the
\* radius, and the population of a binding of lower score is returned
C25_Witness ==
  /\ parse_pc = "parsed"
  /\ \E b \in Members(parse_bindings) :
       /\ LabelScore(b) = 100 * 100
       /\ b.pop.kind = "num" /\ b.pop.value > 0 /\ b.coord.kind = "point"
       /\ b \notin Selectable
  /\ \E b \in Selectable :
       remote_population = Some(b.pop.value) /\ LabelScore(b) < 100 * 100

\* the match results of the run, of both matchers
AllMatches == geonames_matches \o wikidata_matches

\* the results of the phase being persisted that precede position i, with
\* all results of the phase before it
HandedOver ==
  IF pc = "persist_bulk" THEN SubSeq(geonames_matches, 1, i)
  ELSE geonames_matches \o SubSeq(wikidata_matches, 1, i)

\* C26: every match result is handed to the store in exactly one batch: the
\* batch in hand is the next at most BATCH_SIZE results of its list, the
\* batches committed so far are the results before it in list order, a run
\* that ends without a failure has committed each result once, and no record
\* id is in two match results
C26_EachMatchInOneBatch ==
  /\ (Persisting /\ upd_pc # "raised") =>
       /\ committed = HandedOver
       /\ i % config.BATCH_SIZE = 0
  /\ (Persisting /\ InUpdate) =>
       /\ Len(batch) >= 1 /\ Len(batch) <= config.BATCH_SIZE
       /\ batch = SubSeq(PersistList, i + 1, i + Len(batch))
       /\ (Len(batch) < config.BATCH_SIZE => i + Len(batch) = Len(PersistList))
  /\ (pc = "done" /\ ~fatal /\ cities # <<>>) => committed = AllMatches
  /\ \A k, l \in 1..Len(AllMatches) :
       AllMatches[k].city_id = AllMatches[l].city_id => k = l
  /\ \A k, l \in 1..Len(committed) :
       committed[k].city_id = committed[l].city_id => k = l

\* C26 witness: with batches of one, the second batch of the GeoNames
\* results is in its transaction after the first was committed
C26_Witness ==
  /\ pc = "persist_bulk"
  /\ upd_pc = "update"
  /\ config.BATCH_SIZE = 1
  /\ i = 1
  /\ Len(committed) = 1
  /\ batch = <<geonames_matches[2]>>

\* C27: a second call of update_populations with the batch that the first
\* call committed is stopped by nothing the first call left behind, and once
\* it has committed, every row is as the first call left it: the rows of the
\* batch hold the batch's values, the others their values from before, and
\* the second call returns the same count
C27_PersistenceIdempotent ==
  writes_begun = 2 =>
    /\ upd_pc = "create" => ENABLED UpdCreate
    /\ upd_pc = "insert" => ENABLED UpdInsert
    /\ upd_pc = "update" => ENABLED UpdUpdate
    /\ upd_pc = "commit" => (ENABLED UpdCommit /\ working = table)
    /\ upd_pc = "idle" =>
         /\ table = table_at_begin
         /\ table = StoreWith(batch)
         /\ committed = batch \o batch
         /\ updated = Cardinality({m.city_id : m \in Members(batch)} \cap Ids)

\* C27 witness: a batch that changed a row when it was first applied has
\* been applied and committed a second time
C27_Witness ==
  /\ writes_begun = 2
  /\ upd_pc = "idle"
  /\ committed = batch \o batch
  /\ updated > 0
  /\ table # init_table

\* the ids of a list of CityRecords
IdsOf(records) == {records[k].id : k \in 1..Len(records)}

RunEnded == pc \in {"done", "killed"}

\* C29: a run that has ended, normally, on the empty fetch, on a fatal error
\* or on an interruption, has no open connection; the connection is closed
\* only as the run ends; the store is read and written only over the open
\* connection; and after the close nothing of the store, the transaction or
\* the connection changes
C29_ConnectionAlwaysClosed ==
  /\ [](RunEnded => conn # "open")
  /\ []((RunEnded /\ events # <<>>) => conn = "closed")
  /\ [](pc \in InTry => conn = "open")
  /\ [][(conn' = "closed" /\ conn # "closed") => (conn = "open" /\ pc' \in {"done", "killed"})]_vars
  /\ [][(cities' # cities \/ table' # table \/ working' # working
           \/ tmp_city_pop' # tmp_city_pop \/ upd_pc' # upd_pc \/ writes_begun' # writes_begun)
          => conn = "open"]_vars
  /\ [][conn = "closed" => conn' = "closed"]_vars

\* C29 witness: the run was interrupted while requests were being sent, and
\* it has ended with the connection closed
C29_Witness ==
  /\ pc = "killed"
  /\ conn = "closed"
  /\ requests_sent > 0
  /\ w_pc = "in_flight"

\* the steps of main() still ahead at a position, counted generously: the
\* position in the run first, then the work left at that position
PositionRank ==
  CASE pc = "connect" -> 10
    [] pc = "fetch" -> 9
    [] pc = "acquire" -> 8
    [] pc = "bulk" -> 7
    [] pc = "persist_bulk" -> 6
    [] pc = "remote" -> 5
    [] pc = "persist_remote" -> 4
    [] pc = "summary" -> 3
    [] pc = "except" -> 2
    [] pc = "finally" -> 1
    [] OTHER -> 0

\* the statements left in the call of update_populations
StatementsLeft ==
  CASE upd_pc = "idle" -> 4
    [] upd_pc = "create" -> 3
    [] upd_pc = "insert" -> 2
    [] upd_pc = "update" -> 1
    [] OTHER -> 0

\* the work left at the position: records to match, statements of the
\* batches to come, sends and receipts of the attempts to come
WorkLeft ==
  CASE pc = "bulk" -> Len(cities) - i
    [] Persisting -> 5 * (Len(PersistList) - i) + StatementsLeft
    [] pc = "remote" ->
         IF w_pc = "idle" THEN 7 * (Len(unmatched_cities) + 1)
         ELSE 7 * (Len(unmatched_cities) - w_i) + 2 * (3 - attempt)
              + (IF w_pc = "attempt" THEN 1 ELSE 0)
    [] OTHER -> 0

StepsLeft == 7 * (NumCities + 2) * PositionRank + WorkLeft

\* a step that does not wait for a failure can be taken
CanGoOn ==
  CASE pc = "acquire" -> TRUE
    [] pc = "bulk" -> i < Len(cities)
    [] OTHER ->
         ENABLED (Connect \/ Fetch \/ UpdBegin \/ UpdCreate \/ UpdInsert \/ UpdUpdate
                    \/ UpdCommit \/ RemoteStart \/ SendRequest \/ ReceiveOk
                    \/ Summary \/ Except \/ Finally)

\* C30: every run terminates: until the run is done a step can be taken,
\* and every step brings a bounded measure of the steps left down, so that
\* no run takes more steps than the measure at its start and a run whose
\* calls all return or fail reaches the end; each turn of the matching loop
\* takes the next fetched record, once; a target costs at most 3 requests;
\* and no phase is entered twice
C30_Terminates ==
  /\ [](pc # "done" => CanGoOn)
  /\ [](StepsLeft >= 0 /\ WorkLeft < 7 * (NumCities + 2))
  /\ [][StepsLeft' < StepsLeft]_vars
  /\ [](pc = "bulk" => Len(geonames_matches) + Len(unmatched_cities) = i)
  /\ [][(pc = "bulk" /\ Len(cities') = Len(cities)) =>
          /\ city' = cities[i + 1]
          /\ Len(geonames_matches') + Len(unmatched_cities') = i + 1
          /\ \/ (geonames_matches' # geonames_matches
                   /\ geonames_matches'[Len(geonames_matches')].city_id = city'.id)
             \/ unmatched_cities' = Append(unmatched_cities, city')]_vars
  /\ [](attempt <= 3 /\ requests_sent <= 3 * Len(queried))
  /\ [](\A k \in 1..Len(log) : Len(log[k]) <= 3)
  /\ [](\A k, l \in 1..Len(events) : events[k] = events[l] => k = l)

\* C30 witness: a run that matched a record in bulk, gave another up after
\* 3 failed requests and wrote a batch has ended
C30_Witness ==
  /\ pc = "done"
  /\ ~fatal
  /\ geonames_matches # <<>>
  /\ \E k \in 1..Len(log) : log[k] = <<"fail", "fail", "fail">>
  /\ committed # <<>>

====
